---- MODULE Spec2Model ----
(***************************************************************************)
(* Model of src/agent.py: the LiveKit interview agent.                     *)
(*                                                                         *)
(*   - InterviewQuestionsFnc.get_interview_questions: the static           *)
(*     domain-keyed question catalog with normalisation and a "general"    *)
(*     fallback (a pure function);                                         *)
(*   - InterviewQuestionsFnc.save_single_interview_answer: one MongoDB     *)
(*     insert per call, with its connection life cycle and its exception   *)
(*     path, run by several overlapping invocations;                       *)
(*   - entrypoint: connect, wait for the participant, start the voice      *)
(*     pipeline, greet.                                                    *)
(*                                                                         *)
(* Strings that the code transforms (the domain input) are sequences of    *)
(* one-character strings; strings the code only copies are TLA+ strings.   *)
(***************************************************************************)
EXTENDS Integers, Sequences, FiniteSets, TLC

VARIABLES
    entry_pc,     \* position of the entrypoint coroutine
    questions,    \* the list returned by the session's last get_interview_questions call
    calls,        \* the invocations of save_single_interview_answer: position and locals
    answers,      \* the "answers" collection of database "interview-app", in insertion order
    next_id,      \* source of fresh ObjectIds
    now,          \* the clock read by datetime.now()
    dom_input,    \* the domain argument under test (pure-function specification)
    fetched       \* the get_interview_questions calls made on dom_input, in order

vars == <<entry_pc, questions, calls, answers, next_id, now, dom_input, fetched>>

session_vars == <<entry_pc, questions, calls, answers, next_id, now>>

domain_vars == <<dom_input, fetched>>

---------------------------------------------------------------------------
(* Bounds of the model.                                                    *)

\* Invocations of save_single_interview_answer in one run.
MaxCalls == 3

\* Invocations that may be in progress at the same time.
MaxOverlap == 2

\* Every domain string over Alphabet of at most this length is tried.
MaxLen == 3

\* get_interview_questions calls made on one input.
MaxFetches == 3

---------------------------------------------------------------------------
(* str.lower() and str.replace(" ", "_") on sequences of characters.       *)

Upper ==
    <<"A", "B", "C", "D", "E", "F", "G", "H", "I", "J", "K", "L", "M",
      "N", "O", "P", "Q", "R", "S", "T", "U", "V", "W", "X", "Y", "Z">>

Lower ==
    <<"a", "b", "c", "d", "e", "f", "g", "h", "i", "j", "k", "l", "m",
      "n", "o", "p", "q", "r", "s", "t", "u", "v", "w", "x", "y", "z">>

\* The lower-case form of one character, as str.lower() gives it: a string,
\* since U+0130 (capital I with dot above) lowers to the two code points
\* "i" U+0307; characters without a lower-case form are kept.
LowerChar(c) ==
    IF \E i \in DOMAIN Upper : Upper[i] = c
    THEN <<Lower[CHOOSE i \in DOMAIN Upper : Upper[i] = c]>>
    ELSE IF c = "U+0130" THEN <<"i", "U+0307">>
    ELSE <<c>>

RECURSIVE lower(_)
lower(s) ==
    IF s = <<>> THEN <<>> ELSE LowerChar(Head(s)) \o lower(Tail(s))

\* str.swapcase(), which lowers upper-case letters and raises lower-case ones.
RECURSIVE swapcase(_)
swapcase(s) ==
    IF s = <<>> THEN <<>>
    ELSE LET c == Head(s) IN
         (IF \E i \in DOMAIN Lower : Lower[i] = c
          THEN <<Upper[CHOOSE i \in DOMAIN Lower : Lower[i] = c]>>
          ELSE LowerChar(c)) \o swapcase(Tail(s))

\* s.replace(old, new) for a one-character old.
RECURSIVE replace(_, _, _)
replace(s, old, new) ==
    IF s = <<>> THEN <<>>
    ELSE (IF Head(s) = old THEN <<new>> ELSE <<Head(s)>>) \o replace(Tail(s), old, new)

\* The mutant of Normalize: swapcase() written for lower().
Normalize_swapcase(domain) == replace(swapcase(domain), " ", "_")

\* domain.lower().replace(" ", "_")
Normalize(domain) == replace(lower(domain), " ", "_")

---------------------------------------------------------------------------
(* The catalog: the interview_questions dictionary.                        *)

Key_software_engineering ==
    <<"s", "o", "f", "t", "w", "a", "r", "e", "_", "e", "n", "g", "i", "n", "e", "e", "r", "i", "n", "g">>

Key_data_science ==
    <<"d", "a", "t", "a", "_", "s", "c", "i", "e", "n", "c", "e">>

Key_product_management ==
    <<"p", "r", "o", "d", "u", "c", "t", "_", "m", "a", "n", "a", "g", "e", "m", "e", "n", "t">>

Key_machine_learning ==
    <<"m", "a", "c", "h", "i", "n", "e", "_", "l", "e", "a", "r", "n", "i", "n", "g">>

Key_cybersecurity ==
    <<"c", "y", "b", "e", "r", "s", "e", "c", "u", "r", "i", "t", "y">>

Key_general ==
    <<"g", "e", "n", "e", "r", "a", "l">>

interview_questions ==
    (Key_software_engineering :> <<
        "Describe the most complex software system you've designed.",
        "What's your preferred methodology for software development?",
        "How do you stay updated with new technologies?" >>)
    @@ (Key_data_science :> <<
        "Walk me through your typical data analysis workflow.",
        "How do you handle missing or inconsistent data?",
        "Describe a machine learning project that had a significant impact.",
        "What metrics do you consider when evaluating model performance?",
        "How do you communicate complex technical findings to non-technical stakeholders?" >>)
    @@ (Key_product_management :> <<
        "How do you prioritize features for a product roadmap?",
        "Describe a product you improved based on user feedback.",
        "How do you balance user needs with business objectives?",
        "Walk me through your product development process.",
        "How do you measure the success of a product?" >>)
    @@ (Key_machine_learning :> <<
        "Explain a challenging machine learning problem you've solved.",
        "How do you approach feature engineering?",
        "Describe your experience with different ML algorithms.",
        "How do you handle overfitting and underfitting?",
        "What's your approach to model interpretability?" >>)
    @@ (Key_cybersecurity :> <<
        "Describe a security vulnerability you've identified or mitigated.",
        "How do you stay current with emerging security threats?",
        "Walk me through your incident response strategy.",
        "How do you balance security with user experience?",
        "Describe your approach to threat modeling." >>)
    @@ (Key_general :> <<
        "Tell me about yourself and your professional journey.",
        "What are your greatest professional strengths?",
        "Describe a significant challenge you've overcome at work.",
        "Where do you see your career progressing?",
        "What motivates you professionally?" >>)

\* The mutant of get_interview_questions: the call to lower() forgotten.
get_interview_questions_nolower(domain) ==
    LET d == replace(domain, " ", "_") IN
    interview_questions[IF d \in DOMAIN interview_questions THEN d ELSE Key_general]

\* get_interview_questions(domain): normalise, fall back to "general" on a
\* miss, return the catalog's list.
get_interview_questions(domain) ==
    LET d == Normalize(domain) IN
    interview_questions[IF d \in DOMAIN interview_questions THEN d ELSE Key_general]

---------------------------------------------------------------------------
(* The inputs tried.                                                       *)

Alphabet == {"a", "A", " ", "_"}

\* Every string over Alphabet of length at most n.
RECURSIVE StringsUpTo(_)
StringsUpTo(n) ==
    IF n = 0 THEN {<<>>}
    ELSE LET shorter == StringsUpTo(n - 1) IN
         shorter \cup {Append(s, c) : s \in shorter, c \in Alphabet}

NamedInputs ==
    { <<"D", "a", "t", "a", " ", "S", "c", "i", "e", "n", "c", "e">>,
      <<"d", "a", "t", "a", " ", "s", "c", "i", "e", "n", "c", "e">>,
      <<"D", "A", "T", "A", "_", "S", "C", "I", "E", "N", "C", "E">>,
      <<"d", "a", "t", "a", "_", "s", "c", "i", "e", "n", "c", "e">>,
      <<"S", "o", "f", "t", "w", "a", "r", "e", " ", "E", "n", "g", "i", "n", "e", "e", "r", "i", "n", "g">>,
      <<"s", "o", "f", "t", "w", "a", "r", "e", " ", "e", "n", "g", "i", "n", "e", "e", "r", "i", "n", "g">>,
      <<"P", "r", "o", "d", "u", "c", "t", " ", "M", "a", "n", "a", "g", "e", "m", "e", "n", "t">>,
      <<"m", "a", "c", "h", "i", "n", "e", " ", "l", "e", "a", "r", "n", "i", "n", "g">>,
      <<"M", "a", "c", "h", "i", "n", "e", "_", "L", "e", "a", "r", "n", "i", "n", "g">>,
      <<"C", "y", "b", "e", "r", "S", "e", "c", "u", "r", "i", "t", "y">>,
      <<"c", "y", "b", "e", "r", "s", "e", "c", "u", "r", "i", "t", "y">>,
      <<"G", "e", "n", "e", "r", "a", "l">>,
      <<"g", "e", "n", "e", "r", "a", "l">>,
      <<"q", "u", "a", "n", "t", "u", "m", "_", "c", "o", "m", "p", "u", "t", "i", "n", "g">>,
      <<"d", "a", "t", "a", " ", " ", "s", "c", "i", "e", "n", "c", "e">>,
      <<" ", "d", "a", "t", "a", " ", "s", "c", "i", "e", "n", "c", "e">>,
      <<"D", "a", "t", "a", "-", "S", "c", "i", "e", "n", "c", "e">>,
      <<"d", "a", "t", "a", "s", "c", "i", "e", "n", "c", "e">>,
      <<"U+0130">>,
      <<"g", "e", "n", "e", "r", "a", "l", " ">> }

DomainInputs == StringsUpTo(MaxLen) \cup NamedInputs

\* The domain the session's reasoning process asks for: the catalog's list of
\* three questions.
SessionDomains ==
    { <<"S", "o", "f", "t", "w", "a", "r", "e", " ", "E", "n", "g", "i", "n", "e", "e", "r", "i", "n", "g">> }

\* The question_number arguments tried: the first question, and a number past
\* the end of every list of the catalog.
QuestionNumbers == {0, 5}

\* The arguments of the save_single_interview_answer calls tried: two sessions
\* (user ids), one of which saves two question numbers; every call may repeat
\* the arguments of another.
SaveArgs ==
    { [user_id |-> a[1], question |-> "Q1", answer |-> "A1",
       interview_domain |-> "software engineering", question_number |-> a[2]] :
      a \in {<<"u1", 0>>, <<"u1", 5>>, <<"u2", 0>>} }

UserIds == {a.user_id : a \in SaveArgs}

CallIds == 1 .. MaxCalls

---------------------------------------------------------------------------
(* save_single_interview_answer.                                           *)

\* A call that has not been made: no arguments, no client, no result.
IdleCall ==
    [pc |-> "idle", args |-> <<>>, client |-> "none", timestamp |-> 0,
     inserts |-> 0, fault |-> FALSE, inserted_id |-> 0, result |-> 0]

\* The mutant of answer_document: the question and the answer exchanged.
answer_document_swapped(args, timestamp) ==
    [user_id |-> args.user_id, domain |-> args.interview_domain,
     timestamp |-> timestamp, question_number |-> args.question_number,
     question |-> args.answer, answer |-> args.question]

\* The document built from the call's arguments and datetime.now().
answer_document(args, timestamp) ==
    [user_id |-> args.user_id, domain |-> args.interview_domain,
     timestamp |-> timestamp, question_number |-> args.question_number,
     question |-> args.question, answer |-> args.answer]

\* The stored form of a document: the document with the _id the insert gave it.
Stored(doc, oid) == [_id |-> oid] @@ doc

\* The mutant of insert_one: an upsert keyed on (user_id, question_number),
\* which replaces the record a session already has for that number.
insert_one_upsert(coll, doc, oid) ==
    IF \E i \in DOMAIN coll : /\ coll[i].user_id = doc.user_id
                              /\ coll[i].question_number = doc.question_number
    THEN [i \in DOMAIN coll |->
            IF /\ coll[i].user_id = doc.user_id
               /\ coll[i].question_number = doc.question_number
            THEN Stored(doc, oid) ELSE coll[i]]
    ELSE Append(coll, Stored(doc, oid))

\* answers_collection.insert_one(doc): the document is added under a fresh
\* _id; nothing is looked up, replaced or removed.
insert_one(coll, doc, oid) == Append(coll, Stored(doc, oid))

\* The mutant of except_PyMongoError: the error is logged and swallowed, and
\* the call returns normally without a record id.
except_swallow(call) == [call EXCEPT !.pc = "returned"]

\* except PyMongoError: print the error and re-raise it. The handler does not
\* close the client and does not insert again.
except_PyMongoError(call) == [call EXCEPT !.pc = "raised"]

\* The mutant of close: one client kept on the shared fnc_ctx object, so that
\* the close of one call closes the client of every call.
close_shared(cs, c) ==
    [d \in DOMAIN cs |->
        IF d = c THEN [cs[d] EXCEPT !.client = "closed", !.pc = "returned",
                                     !.result = cs[d].inserted_id]
        ELSE IF cs[d].client = "open" THEN [cs[d] EXCEPT !.client = "closed"]
        ELSE cs[d]]

\* client.close() and return str(result.inserted_id): the client is the
\* call's own local, so only this call's record changes.
close(cs, c) ==
    [cs EXCEPT ![c].client = "closed", ![c].pc = "returned",
               ![c].result = cs[c].inserted_id]

\* The calls that have begun and not ended.
InFlight == {c \in CallIds : calls[c].pc \in {"L131", "L134"}}

\* The call records are interchangeable, so they are taken in order.
NextToCall(c) == IF c = 1 THEN TRUE ELSE calls[c - 1].pc # "idle"

\* The pipeline hands the reasoning process the capability object once
\* assistant.start has run.
ToolsAvailable == entry_pc \in {"L185", "done"}

\* A call begins: MongoClient(...) gives the call a client of its own and the
\* document is built with the clock's reading (the client connects lazily, so
\* nothing is shared with other calls before the insert).
Invoke(c, args) ==
    /\ ToolsAvailable
    /\ calls[c].pc = "idle"
    /\ NextToCall(c)
    /\ Cardinality(InFlight) < MaxOverlap
    /\ calls' = [calls EXCEPT ![c] = [IdleCall EXCEPT !.pc = "L131", !.args = args,
                                        !.client = "open", !.timestamp = now]]
    /\ now' = now + 1
    /\ UNCHANGED <<entry_pc, questions, answers, next_id, domain_vars>>

\* A call begins and MongoClient(...) itself raises a PyMongoError (an
\* invalid MONGODB_URI): no client exists, the handler runs.
InvokeConnectFault(c, args) ==
    /\ ToolsAvailable
    /\ calls[c].pc = "idle"
    /\ NextToCall(c)
    /\ calls' = [calls EXCEPT ![c] =
                    except_PyMongoError([IdleCall EXCEPT !.args = args, !.fault = TRUE])]
    /\ UNCHANGED <<entry_pc, questions, answers, next_id, now, domain_vars>>

\* insert_one succeeds: the document is stored under a fresh ObjectId.
InsertOk(c) ==
    /\ calls[c].pc = "L131"
    /\ calls[c].client = "open"
    /\ answers' = insert_one(answers, answer_document(calls[c].args, calls[c].timestamp),
                             next_id)
    /\ next_id' = next_id + 1
    /\ calls' = [calls EXCEPT ![c].pc = "L134", ![c].inserts = @ + 1,
                              ![c].inserted_id = next_id]
    /\ UNCHANGED <<entry_pc, questions, now, domain_vars>>

\* insert_one raises a PyMongoError (the store is unreachable, or the client
\* has been closed): nothing is stored, the handler runs.
InsertFault(c) ==
    /\ calls[c].pc = "L131"
    /\ calls' = [calls EXCEPT ![c] =
                    except_PyMongoError([calls[c] EXCEPT !.inserts = @ + 1,
                                                         !.fault = TRUE])]
    /\ UNCHANGED <<entry_pc, questions, answers, next_id, now, domain_vars>>

\* client.close(), then the id is returned.
CloseAndReturn(c) ==
    /\ calls[c].pc = "L134"
    /\ calls' = close(calls, c)
    /\ UNCHANGED <<entry_pc, questions, answers, next_id, now, domain_vars>>

---------------------------------------------------------------------------
(* The session: entrypoint and the reasoning process's question fetch.     *)

\* await ctx.connect(auto_subscribe=AUDIO_ONLY)
EntryConnect ==
    /\ entry_pc = "L163"
    /\ entry_pc' = "L166"
    /\ UNCHANGED <<questions, calls, answers, next_id, now, domain_vars>>

\* participant = await ctx.wait_for_participant()
EntryWaitForParticipant ==
    /\ entry_pc = "L166"
    /\ entry_pc' = "L173"
    /\ UNCHANGED <<questions, calls, answers, next_id, now, domain_vars>>

\* assistant = VoicePipelineAgent(..., fnc_ctx=fnc_ctx); assistant.start(...)
EntryStartAssistant ==
    /\ entry_pc = "L173"
    /\ entry_pc' = "L185"
    /\ UNCHANGED <<questions, calls, answers, next_id, now, domain_vars>>

\* await assistant.say(greeting): the last statement of entrypoint.
EntrySayGreeting ==
    /\ entry_pc = "L185"
    /\ entry_pc' = "done"
    /\ UNCHANGED <<questions, calls, answers, next_id, now, domain_vars>>

\* The reasoning process calls get_interview_questions and keeps the list.
FetchQuestions(domain) ==
    /\ ToolsAvailable
    /\ questions' = get_interview_questions(domain)
    /\ UNCHANGED <<entry_pc, calls, answers, next_id, now, domain_vars>>

\* The phase of the session as the code has it: entrypoint is in its
\* introduction until the greeting has been said, and the pipeline takes the
\* questions from then on. No statement of the program counts saves or ends
\* the questioning, so no position of the code is a concluded one.
phase == IF entry_pc = "done" THEN "Questioning" ELSE "Introduction"

\* The question pointer of session u as the code has it: the program keeps no
\* counter, so the session's current question number is the one after the
\* question_number its latest stored record carries (0 before any record).
RECURSIVE LastOf(_, _)
LastOf(coll, u) ==
    IF coll = <<>> THEN 0
    ELSE IF coll[Len(coll)].user_id = u THEN coll[Len(coll)].question_number + 1
    ELSE LastOf(SubSeq(coll, 1, Len(coll) - 1), u)

currentQuestionNumber(u) == LastOf(answers, u)

---------------------------------------------------------------------------
(* The pure-function specification: calls of get_interview_questions on    *)
(* one input.                                                              *)

\* get_interview_questions(dom_input)
Fetch ==
    /\ Len(fetched) < MaxFetches
    /\ fetched' = Append(fetched, [domain |-> dom_input,
                                   result |-> get_interview_questions(dom_input)])
    /\ UNCHANGED <<dom_input, session_vars>>

\* get_interview_questions on the key the input normalises to.
FetchNormalized ==
    /\ Len(fetched) < MaxFetches
    /\ fetched' = Append(fetched, [domain |-> Normalize(dom_input),
                                   result |-> get_interview_questions(Normalize(dom_input))])
    /\ UNCHANGED <<dom_input, session_vars>>

---------------------------------------------------------------------------
(* Specifications.                                                         *)

SessionInit ==
    /\ entry_pc = "L163"
    /\ questions = <<>>
    /\ calls = [c \in CallIds |-> IdleCall]
    /\ answers = <<>>
    /\ next_id = 1
    /\ now = 0

Init ==
    /\ SessionInit
    /\ dom_input = <<>>
    /\ fetched = <<>>

Next ==
    \/ EntryConnect
    \/ EntryWaitForParticipant
    \/ EntryStartAssistant
    \/ EntrySayGreeting
    \/ \E d \in SessionDomains : FetchQuestions(d)
    \/ \E c \in CallIds, args \in SaveArgs : Invoke(c, args)
    \/ \E c \in CallIds, args \in SaveArgs : InvokeConnectFault(c, args)
    \/ \E c \in CallIds : InsertOk(c)
    \/ \E c \in CallIds : InsertFault(c)
    \/ \E c \in CallIds : CloseAndReturn(c)

Spec == Init /\ [][Next]_vars

DomainInit ==
    /\ SessionInit
    /\ dom_input \in DomainInputs
    /\ fetched = <<>>

DomainNext == Fetch \/ FetchNormalized

SpecDomain == DomainInit /\ [][DomainNext]_vars

---------------------------------------------------------------------------
(* Claims.                                                                 *)

\* The calls whose insert has succeeded.
Inserted == {c \in CallIds : calls[c].pc \in {"L134", "returned"}}

\* The calls that have returned a record id.
Returned == {c \in CallIds : calls[c].pc = "returned"}

\* The calls that met a storage fault.
Faulted == {c \in CallIds : calls[c].fault}

\* The positions of the records of session u with question number q.
RecordsOf(u, q) ==
    {i \in DOMAIN answers : answers[i].user_id = u /\ answers[i].question_number = q}

\* The successful saves of session u.
SuccessfulSaves(u) == {c \in Returned : calls[c].args.user_id = u}

\* answers is kept as it was, at the front of the collection after the step.
AnswersKept ==
    /\ Len(answers') >= Len(answers)
    /\ SubSeq(answers', 1, Len(answers)) = answers

\* C1: with a resolved question set of length N, the phase is Concluded only
\* when N saves of the session have succeeded, and is Concluded once N saves
\* have succeeded. (The code never concludes: violated.)
C1_ConcludedExactlyAfterNthSave ==
    \A u \in UserIds :
        questions # <<>> =>
            /\ phase = "Concluded" => Cardinality(SuccessfulSaves(u)) >= Len(questions)
            /\ Cardinality(SuccessfulSaves(u)) >= Len(questions) => phase = "Concluded"

\* C2 as claimed: the answers collection holds at most one record per
\* question number of a session. (Violated by a repeated save.)
C2_AtMostOneRecordPerQuestionNumber ==
    \A u \in UserIds, q \in QuestionNumbers : Cardinality(RecordsOf(u, q)) <= 1

\* C2 as amended: the answers collection holds exactly one record per
\* successful save, so a session has as many records for a question number as
\* it made successful saves with that number (at most one only when it saved
\* that number at most once).
C2_OneRecordPerSuccessfulSave ==
    \A u \in UserIds, q \in QuestionNumbers :
        Cardinality(RecordsOf(u, q)) =
            Cardinality({c \in Inserted : /\ calls[c].args.user_id = u
                                          /\ calls[c].args.question_number = q})

\* C2 witness: a session has saved one question number twice and another once.
C2_Witness ==
    \E u \in UserIds, q1, q2 \in QuestionNumbers :
        /\ Cardinality(RecordsOf(u, q1)) = 2
        /\ Cardinality(RecordsOf(u, q2)) = 1

\* C3: a session's current question number never decreases; each successful
\* save raises it by exactly 1, and every other step (a failed save, a fetch
\* of the questions) leaves it unchanged. (The code takes any question_number
\* from the caller: violated.)
C3_PointerAdvancesByOnePerSave ==
    [][\A u \in UserIds :
          LET saved == \E c \in CallIds : /\ calls[c].pc = "L131"
                                          /\ calls'[c].pc = "L134"
                                          /\ calls[c].args.user_id = u
          IN /\ LastOf(answers', u) >= currentQuestionNumber(u)
             /\ saved => LastOf(answers', u) = currentQuestionNumber(u) + 1
             /\ ~saved => LastOf(answers', u) = currentQuestionNumber(u)]_vars

\* C4: a call that has ended, by returning or by raising, holds no open
\* client. (The handler does not close the client: violated.)
C4_ConnectionReleasedOnEveryExit ==
    \A c \in CallIds : calls[c].pc \in {"returned", "raised"} => calls[c].client # "open"

\* C5: a call that meets a storage fault ends by raising, with no record id;
\* no call attempts its insert more than once; and the step in which the
\* fault is met leaves the answers collection unchanged, so that no record of
\* the collection comes from a failed call.
C5_FaultSurfacedOnceNoRecord ==
    /\ [](\A c \in CallIds :
            /\ calls[c].inserts <= 1
            /\ calls[c].fault =>
                  /\ calls[c].pc = "raised"
                  /\ calls[c].result = 0
                  /\ calls[c].inserted_id = 0
            /\ Len(answers) = Cardinality(Inserted))
    /\ [][\A c \in CallIds :
            (~calls[c].fault /\ calls'[c].fault) => answers' = answers]_vars

\* C5 witness: a call has met a fault on its one insert while the collection
\* holds a record of another call.
C5_Witness ==
    \E c \in Faulted : calls[c].inserts = 1 /\ answers # <<>>

\* C6: two calls with identical arguments that have both returned have
\* returned distinct record ids, and the collection holds a record under each.
C6_NoDeduplication ==
    \A c1, c2 \in Returned :
        (c1 # c2 /\ calls[c1].args = calls[c2].args) =>
            /\ calls[c1].result # calls[c2].result
            /\ \E i, j \in DOMAIN answers :
                  /\ i # j
                  /\ answers[i]._id = calls[c1].result
                  /\ answers[j]._id = calls[c2].result
                  /\ answers[i].user_id = answers[j].user_id
                  /\ answers[i].question_number = answers[j].question_number

\* C6 witness: two calls with identical arguments have both returned.
C6_Witness ==
    \E c1, c2 \in Returned : c1 # c2 /\ calls[c1].args = calls[c2].args

\* C9: a successful insert adds to the collection exactly one record, under
\* an id no record had, carrying the call's user id, domain, question number,
\* question and answer; the call then returns that id; and no step changes or
\* removes a record already stored.
C9_SaveAddsExactlyOneRecord ==
    [][/\ AnswersKept
       /\ \A c \in CallIds :
            /\ (calls[c].pc = "L131" /\ calls'[c].pc = "L134") =>
                  /\ Len(answers') = Len(answers) + 1
                  /\ LET r == answers'[Len(answers')] IN
                        /\ r._id = calls'[c].inserted_id
                        /\ \A i \in DOMAIN answers : answers[i]._id # r._id
                        /\ r.user_id = calls[c].args.user_id
                        /\ r.domain = calls[c].args.interview_domain
                        /\ r.question_number = calls[c].args.question_number
                        /\ r.question = calls[c].args.question
                        /\ r.answer = calls[c].args.answer
            /\ (calls[c].pc = "L134" /\ calls'[c].pc = "returned") =>
                  /\ calls'[c].result = calls[c].inserted_id
                  /\ answers' = answers]_vars

\* C9 witness: a session's records carry a number past the end of the list,
\* then the first number twice: saves repeated and out of order, all returned.
C9_Witness ==
    /\ Returned = CallIds
    /\ \E i, j, k \in DOMAIN answers :
          /\ i < j /\ j < k
          /\ answers[i].question_number > answers[j].question_number
          /\ answers[j].question_number = answers[k].question_number
          /\ answers[i].user_id = answers[j].user_id
          /\ answers[j].user_id = answers[k].user_id

\* C10: however the steps of the calls interleave, a step of one call changes
\* no other call and no stored record; a call waiting to insert still holds
\* its own open client; every call that returned has exactly one record, under
\* the id it returned and with its arguments; and ids differ between calls.
C10_CallsDoNotInterfere ==
    /\ [](/\ \A c \in CallIds : calls[c].pc = "L131" => calls[c].client = "open"
          /\ \A c \in Returned :
                Cardinality({i \in DOMAIN answers :
                    /\ answers[i]._id = calls[c].result
                    /\ answers[i].user_id = calls[c].args.user_id
                    /\ answers[i].question_number = calls[c].args.question_number
                    /\ answers[i].timestamp = calls[c].timestamp}) = 1
          /\ \A c1, c2 \in Inserted :
                c1 # c2 => calls[c1].inserted_id # calls[c2].inserted_id)
    /\ [][/\ AnswersKept
          /\ \A c, d \in CallIds :
                (c # d /\ calls'[c] # calls[c]) => calls'[d] = calls[d]]_vars

\* C10 witness: two calls overlapped (the later call inserted first) and both
\* returned, while a third call met a fault.
C10_Witness ==
    \E c1, c2 \in Returned, c3 \in Faulted :
        /\ c1 < c2
        /\ calls[c2].inserted_id < calls[c1].inserted_id
        /\ calls[c3].inserts = 1

\* The catalog key an input stands for, read character by character: the
\* input has the key's length, and each character is the key's, or its
\* upper-case form, or a space where the key has an underscore.
StandsFor(domain, key) ==
    /\ Len(domain) = Len(key)
    /\ \A i \in DOMAIN key :
          \/ domain[i] = key[i]
          \/ \E n \in DOMAIN Lower : Lower[n] = key[i] /\ Upper[n] = domain[i]
          \/ domain[i] = " " /\ key[i] = "_"

\* The list an input must get.
Expected(domain) ==
    IF \E key \in DOMAIN interview_questions : StandsFor(domain, key)
    THEN interview_questions[CHOOSE key \in DOMAIN interview_questions :
                                StandsFor(domain, key)]
    ELSE interview_questions[Key_general]

\* C7: every call of get_interview_questions returns a non-empty list: the
\* catalog's list for the key the input stands for, the "general" list when
\* it stands for none; calls with the same input return the same list.
C7_FetchByDomain ==
    /\ \A i \in DOMAIN fetched :
          /\ fetched[i].result # <<>>
          /\ fetched[i].result = Expected(fetched[i].domain)
    /\ \A i, j \in DOMAIN fetched :
          fetched[i].domain = fetched[j].domain => fetched[i].result = fetched[j].result

\* C7 witness: an input that is no key of the catalog as written has been
\* fetched twice and got a list other than the "general" one.
C7_Witness ==
    /\ dom_input \notin DOMAIN interview_questions
    /\ \E i, j \in DOMAIN fetched :
          /\ i # j
          /\ fetched[i].domain = dom_input
          /\ fetched[j].domain = dom_input
          /\ fetched[i].result # interview_questions[Key_general]

\* C8: normalising a normalised input changes nothing, and a fetch by the
\* normalised key returns the list a fetch by the input returns.
C8_NormalizeIdempotent ==
    /\ Normalize(Normalize(dom_input)) = Normalize(dom_input)
    /\ \A i \in DOMAIN fetched :
          /\ Normalize(fetched[i].domain) = Normalize(dom_input)
          /\ \A j \in DOMAIN fetched : fetched[i].result = fetched[j].result

\* C8 witness: an input that normalisation changes has been fetched as
\* written and by its normalised key, and got a list of the catalog other
\* than the "general" one.
C8_Witness ==
    /\ Normalize(dom_input) # dom_input
    /\ \E i, j \in DOMAIN fetched :
          /\ fetched[i].domain = dom_input
          /\ fetched[j].domain = Normalize(dom_input)
          /\ fetched[i].result # interview_questions[Key_general]

====
